---- MODULE Spec2Model ----
(***************************************************************************)
(* The notebook notebooks/activity-2.ipynb (a PINN for the 1D diffusion    *)
(* equation) as a state machine.  One action per code cell, executed top   *)
(* to bottom as "Run All" does: a cell that raises stops the run.          *)
(*                                                                         *)
(* Numbers.  Coordinates are integers in units of 1/Den, so that the mesh  *)
(* points of np.linspace and the strata of the Latin Hypercube are exact.  *)
(* The learning rate is an integer in units of 1e-4.  Values the notebook  *)
(* obtains from a library as opaque reals (the analytical solution, a      *)
(* network output) are records naming the function and its arguments.     *)
(***************************************************************************)
EXTENDS Integers, Sequences, FiniteSets, TLC

(* ------------------------------ bounds --------------------------------- *)
\* dom_samples: mesh points per axis (the notebook uses 100)
dom_samples == 3
\* n of sampler.random(n): number of collocation points (the notebook uses 100)
NSamples == 2
\* largest training_iter tried (the notebook uses 20000)
MaxIter == 2
\* longest hidden_layers list tried, and the largest width in it
MaxLayers == 3
MaxWidth == 2
\* largest lambda weight passed to the loss function
MaxLambda == 3

(* --------------------------- numeric helpers --------------------------- *)
\* denominator of the coordinate unit
Den == 4 * NSamples * (dom_samples - 1)

\* Tensor.float(): float64 -> float32, round to nearest representable value,
\* ties to even.  Representable values are the multiples of 4 units; the
\* domain corners -1, 0, 1, 2 are representable, as they are in float32.
Float32(v) ==
  LET q == v \div 4
      r == v % 4
  IN  IF r < 2 THEN 4 * q
      ELSE IF r > 2 THEN 4 * (q + 1)
      ELSE IF q % 2 = 0 THEN 4 * q ELSE 4 * (q + 1)

\* np.linspace(lo, hi, n), lo and hi in whole units
linspace(lo, hi, n) ==
  [j \in 1..n |-> lo * Den + ((j - 1) * (hi - lo) * Den) \div (n - 1)]

\* np.meshgrid(xs, ts) with the default indexing='xy': both results have
\* shape (len(ts), len(xs)); the first repeats xs along rows, the second
\* repeats ts along columns.
meshgrid(xs, ts) ==
  [X |-> [i \in 1..Len(ts) |-> [j \in 1..Len(xs) |-> xs[j]]],
   T |-> [i \in 1..Len(ts) |-> [j \in 1..Len(xs) |-> ts[i]]]]

\* analytic_diffusion(x, t), elementwise on two meshes of the same shape;
\* exp(-t)*sin(pi*x) is kept symbolic
analytic_diffusion(Xm, Tm) ==
  [i \in 1..Len(Xm) |-> [j \in 1..Len(Xm[i]) |->
      [fn |-> "exp(-t)*sin(pi*x)", x |-> Xm[i][j], t |-> Tm[i][j]]]]

\* A 2-D tensor is a sequence of rows.
\* M.reshape(-1, 1) of a 2-D array: row-major flattening into N rows of 1
ReshapeN1(M) ==
  LET c == Len(M[1])
  IN  [k \in 1..(Len(M) * c) |-> << M[((k - 1) \div c) + 1][((k - 1) % c) + 1] >>]

\* v.reshape(-1, 1) of a 1-D array
ReshapeVecN1(v) == [k \in 1..Len(v) |-> << v[k] >>]

\* reshape that fills the result column by column
Reshape2D_ColumnMajor(A, r, c) ==
  [i \in 1..r |-> [j \in 1..c |-> A[(j - 1) * r + i][1]]]

\* A.reshape(r, c) of an (r*c, 1) tensor: row-major
Reshape2D(A, r, c) ==
  [i \in 1..r |-> [j \in 1..c |-> A[(i - 1) * c + j][1]]]

\* torch.cat([A, B], dim = 1)
Cat1(A, B) == [k \in 1..Len(A) |-> A[k] \o B[k]]

\* elementwise .float() of a tensor
FloatT(A) == [k \in 1..Len(A) |-> [d \in 1..Len(A[k]) |-> Float32(A[k][d])]]

\* A[:, d] (d counted from 1 here)
Column(A, d) == [k \in 1..Len(A) |-> A[k][d]]

(* --------------------- Latin Hypercube sampling ------------------------ *)
\* width of one stratum of [0, 1) in units
StratumWidth == Den \div NSamples

\* qmc.LatinHypercube(d=2).random(n): n points of [0,1)^2, one point in
\* each of the n strata of every coordinate.  Inside its stratum a point is
\* anywhere; the lowest and the highest offsets are enumerated.
LatinHypercube ==
  { [k \in 1..NSamples |->
        << StratumWidth * (p[1][k] - 1) + o[k][1],
           StratumWidth * (p[2][k] - 1) + o[k][2] >>] :
      p \in Permutations(1..NSamples) \X Permutations(1..NSamples),
      o \in [1..NSamples -> {0, StratumWidth - 1} \X {0, StratumWidth - 1}] }

\* qmc.scale(sample, l_bounds, u_bounds): column d goes to l[d] + s*(u[d]-l[d])
scale(s, l, u) ==
  [k \in 1..Len(s) |-> [d \in 1..2 |-> l[d] * Den + s[k][d] * (u[d] - l[d])]]

l_bounds == << -1, 0 >>
u_bounds == << 1, 2 >>

(* ------------------------------ network -------------------------------- *)
\* the loop running over hlayers[:-1] instead of hlayers[:-2]
NeuralNetwork_LoopTooLong(hlayers) ==
  LET n == Len(hlayers)
      Hidden(k) == << [kind |-> "Linear", in |-> hlayers[k], out |-> hlayers[k + 1]],
                      [kind |-> "Tanh", in |-> 0, out |-> 0] >>
      Body[k \in 0..n] == IF k = 0 THEN << >> ELSE Body[k - 1] \o Hidden(k)
  IN  Body[n - 1] \o << [kind |-> "Linear", in |-> hlayers[n - 1], out |-> hlayers[n]] >>

\* NeuralNetwork.__init__(hlayers): the list handed to nn.Sequential
NeuralNetwork(hlayers) ==
  LET n == Len(hlayers)
      Hidden(k) == << [kind |-> "Linear", in |-> hlayers[k], out |-> hlayers[k + 1]],
                      [kind |-> "Tanh", in |-> 0, out |-> 0] >>
      Body[k \in 0..n] == IF k = 0 THEN << >> ELSE Body[k - 1] \o Hidden(k)
  IN  Body[n - 2] \o << [kind |-> "Linear", in |-> hlayers[n - 1], out |-> hlayers[n]] >>

\* p.numel() summed over the parameters: weight (out x in) and bias (out)
\* of every Linear; Tanh has none
NumParams(ls) ==
  LET Cnt[k \in 0..Len(ls)] ==
        IF k = 0 THEN 0
        ELSE Cnt[k - 1] + (IF ls[k].kind = "Linear"
                             THEN ls[k].in * ls[k].out + ls[k].out ELSE 0)
  IN  Cnt[Len(ls)]

\* the value the network with parameters theta returns on one input row
NetOut(theta, row) == [fn |-> "u_pinn", theta |-> theta, in |-> row]

\* NeuralNetwork.forward(x): nn.Sequential applies the layers to every row.
\* The first Linear rejects rows whose width is not its in_features.
forward(ls, theta, A) ==
  IF \E k \in 1..Len(A) : Len(A[k]) # ls[1].in
    THEN [exc |-> "RuntimeError", out |-> << >>]
    ELSE [exc |-> "none",
          out |-> [k \in 1..Len(A) |-> [d \in 1..ls[Len(ls)].out |-> NetOut(theta, A[k])]]]

(* --------------------------- loss function ----------------------------- *)
\* names bound inside a call of PINN_diffusion_Loss: its parameters and the
\* two names its body assigns
FunctionLocals ==
  {"forward_pass", "x_ten", "t_ten", "lambda1", "lambda2", "lambda3", "domain", "u"}

\* the names the return statement reads
ReturnNames == {"PDE_loss", "IC_loss", "BC1_loss", "BC2_loss"}

\* the expression of the return statement as a weighted sum: a sequence of
\* <<coefficient, name>>.  The statement does not mention the lambdas.
ReturnExpr(lambda1, lambda2, lambda3) ==
  << <<1, "PDE_loss">>, <<1, "IC_loss">>, <<1, "BC1_loss">>, <<1, "BC2_loss">> >>

\* PINN_diffusion_Loss(forward_pass, x_ten, t_ten, lambda1, lambda2, lambda3),
\* called while the kernel namespace binds the names ns.  ls and theta are
\* the layers and the parameters of forward_pass.  Result: the exception
\* raised (or "none"), the tensors handed to forward_pass, the value returned.
PINN_diffusion_Loss(ls, theta, xt, tt, lambda1, lambda2, lambda3, ns) ==
  LET domain == Cat1(tt, xt)
      u == forward(ls, theta, domain)
  IN  IF u.exc # "none"
        THEN [exc |-> u.exc, fwd |-> << domain >>, value |-> << >>]
      ELSE IF ~(ReturnNames \subseteq (FunctionLocals \cup ns))
        THEN [exc |-> "NameError", fwd |-> << domain >>, value |-> << >>]
      ELSE [exc |-> "none", fwd |-> << domain >>,
            value |-> [sum |-> ReturnExpr(lambda1, lambda2, lambda3), theta |-> theta]]

(* ------------------------------- state --------------------------------- *)
VARIABLES
  pc,             \* number of the code cell to run next (1..9), 10 after the last
  exc,            \* the unhandled exception that stopped the run, or "none"
  runs,           \* runs[c]: how many times cell c was started
  globals,        \* names bound in the kernel namespace
  reports,        \* what was printed or plotted
  x, t,           \* 1-D meshes
  X, T, U,        \* 2-D meshes and the analytical solution on them
  domain_xt,      \* scaled collocation points, rows (x, t)
  x_ten, t_ten,   \* collocation tensors, shape (n, 1)
  hidden_layers, learning_rate, training_iter,
  layers,         \* u_pinn.layers
  nparams,
  opt_lr,         \* lr of the Adam optimizer, 0 before it exists
  opt_steps,      \* optimizer.step() calls applied to the parameters of u_pinn
  backward_calls, \* loss.backward() calls
  zero_grad_calls,
  i,              \* loop variable of the training loop, -1 while unbound
  loss_values,
  lambdas,        \* the lambda1, lambda2, lambda3 of the last call of the loss
  ret,            \* outcome of the last call of PINN_diffusion_Loss
  fwd_log,        \* every tensor handed to u_pinn, tagged with the calling cell
  U_pred

vars == << pc, exc, runs, globals, reports, x, t, X, T, U, domain_xt, x_ten, t_ten,
           hidden_layers, learning_rate, training_iter, layers, nparams, opt_lr,
           opt_steps, backward_calls, zero_grad_calls, i, loss_values, lambdas, ret,
           fwd_log, U_pred >>

\* the code cells, in notebook order
MagicCell == 1
SetupCell == 2
AnalyticCell == 3
SamplingCell == 4
ParamsCell == 5
NetDefCell == 6
CreateCell == 7
TrainCell == 8
EvalCell == 9
Cells == MagicCell..EvalCell

\* lr=0.001 of optim.Adam, in units of 1e-4
AdamLr == 10

\* the hidden_layers of the notebook
NotebookLayers == << 2, 10, 10, 10, 1 >>

\* values tried for the three training parameters
HiddenChoices ==
  { h \in UNION { [1..n -> 1..MaxWidth] : n \in 2..MaxLayers } : TRUE } \cup {NotebookLayers}
LrChoices == {1, 10, 100}
IterChoices == 0..MaxIter

NoCall == [called |-> FALSE, exc |-> "none", value |-> << >>]

Init ==
  /\ pc = MagicCell
  /\ exc = "none"
  /\ runs = [c \in Cells |-> 0]
  /\ globals = {}
  /\ reports = {}
  /\ x = << >> /\ t = << >> /\ X = << >> /\ T = << >> /\ U = << >>
  /\ domain_xt = << >> /\ x_ten = << >> /\ t_ten = << >>
  /\ hidden_layers = << >> /\ learning_rate = 0 /\ training_iter = 0
  /\ layers = << >> /\ nparams = 0 /\ opt_lr = 0
  /\ opt_steps = 0 /\ backward_calls = 0 /\ zero_grad_calls = 0
  /\ i = -1
  /\ loss_values = << >>
  /\ lambdas = << 1, 1, 1 >>
  /\ ret = NoCall
  /\ fwd_log = << >>
  /\ U_pred = << >>

\* cell c is the next one and nothing has raised
Runnable(c) == pc = c /\ exc = "none"

\* cell c ran to its end and bound the names ns
Finish(c, ns) ==
  /\ pc' = c + 1
  /\ exc' = "none"
  /\ runs' = [runs EXCEPT ![c] = @ + 1]
  /\ globals' = globals \cup ns

\* cell c raised e after binding the names ns
Raise(c, e, ns) ==
  /\ pc' = c
  /\ exc' = e
  /\ runs' = [runs EXCEPT ![c] = @ + 1]
  /\ globals' = globals \cup ns

(* ------------------------------- cells --------------------------------- *)
\* %matplotlib inline / widget
RunMagic ==
  /\ Runnable(MagicCell)
  /\ Finish(MagicCell, {})
  /\ UNCHANGED << reports, x, t, X, T, U, domain_xt, x_ten, t_ten, hidden_layers,
                  learning_rate, training_iter, layers, nparams, opt_lr, opt_steps,
                  backward_calls, zero_grad_calls, i, loss_values, lambdas, ret,
                  fwd_log, U_pred >>

\* imports, rcParams, relative_l2_error, plot_comparison, grad
RunSetup ==
  /\ Runnable(SetupCell)
  /\ Finish(SetupCell, {"np", "torch", "nn", "optim", "plt", "mlp", "time", "warnings",
                        "gray", "relative_l2_error", "plot_comparison", "grad"})
  /\ UNCHANGED << reports, x, t, X, T, U, domain_xt, x_ten, t_ten, hidden_layers,
                  learning_rate, training_iter, layers, nparams, opt_lr, opt_steps,
                  backward_calls, zero_grad_calls, i, loss_values, lambdas, ret,
                  fwd_log, U_pred >>

\* analytical solution on the uniform mesh
RunAnalytic ==
  /\ Runnable(AnalyticCell)
  /\ LET xs == linspace(-1, 1, dom_samples)
         ts == linspace(0, 2, dom_samples)
         m == meshgrid(xs, ts)
     IN  /\ x' = xs
         /\ t' = ts
         /\ X' = m.X
         /\ T' = m.T
         /\ U' = analytic_diffusion(m.X, m.T)
  /\ reports' = reports \cup {"3D Analytic Solution for Diffusion"}
  /\ Finish(AnalyticCell, {"dom_samples", "analytic_diffusion", "x", "t", "X", "T", "U",
                           "fig", "ax", "surf"})
  /\ UNCHANGED << domain_xt, x_ten, t_ten, hidden_layers,
                  learning_rate, training_iter, layers, nparams, opt_lr, opt_steps,
                  backward_calls, zero_grad_calls, i, loss_values, lambdas, ret,
                  fwd_log, U_pred >>

\* Latin Hypercube sampling of the collocation points
RunSampling ==
  /\ Runnable(SamplingCell)
  /\ \E sample \in LatinHypercube :
       LET d == scale(sample, l_bounds, u_bounds)
       IN  /\ domain_xt' = d
           /\ x_ten' = ReshapeVecN1([k \in 1..Len(d) |-> Float32(Column(d, 1)[k])])
           /\ t_ten' = ReshapeVecN1([k \in 1..Len(d) |-> Float32(Column(d, 2)[k])])
  /\ reports' = reports \cup {"Collocation points"}
  /\ Finish(SamplingCell, {"qmc", "sampler", "sample", "l_bounds", "u_bounds",
                           "domain_xt", "x_ten", "t_ten"})
  /\ UNCHANGED << x, t, X, T, U, hidden_layers,
                  learning_rate, training_iter, layers, nparams, opt_lr, opt_steps,
                  backward_calls, zero_grad_calls, i, loss_values, lambdas, ret,
                  fwd_log, U_pred >>

\* the training parameters; the values written in the cell are the input
RunParams ==
  /\ Runnable(ParamsCell)
  /\ \E h \in HiddenChoices, lr \in LrChoices, n \in IterChoices :
       /\ hidden_layers' = h
       /\ learning_rate' = lr
       /\ training_iter' = n
  /\ Finish(ParamsCell, {"hidden_layers", "learning_rate", "training_iter"})
  /\ UNCHANGED << reports, x, t, X, T, U, domain_xt, x_ten, t_ten,
                  layers, nparams, opt_lr, opt_steps,
                  backward_calls, zero_grad_calls, i, loss_values, lambdas, ret,
                  fwd_log, U_pred >>

\* MSE_func and the class NeuralNetwork
RunNetDef ==
  /\ Runnable(NetDefCell)
  /\ Finish(NetDefCell, {"MSE_func", "NeuralNetwork"})
  /\ UNCHANGED << reports, x, t, X, T, U, domain_xt, x_ten, t_ten, hidden_layers,
                  learning_rate, training_iter, layers, nparams, opt_lr, opt_steps,
                  backward_calls, zero_grad_calls, i, loss_values, lambdas, ret,
                  fwd_log, U_pred >>

\* u_pinn = NeuralNetwork(hidden_layers), nparams, the Adam optimizer
RunCreate ==
  /\ Runnable(CreateCell)
  /\ layers' = NeuralNetwork(hidden_layers)
  /\ nparams' = NumParams(layers')
  /\ opt_lr' = AdamLr
  /\ reports' = reports \cup {"Number of trainable parameters"}
  /\ Finish(CreateCell, {"u_pinn", "nparams", "optimizer"})
  /\ UNCHANGED << x, t, X, T, U, domain_xt, x_ten, t_ten, hidden_layers,
                  learning_rate, training_iter, opt_steps,
                  backward_calls, zero_grad_calls, i, loss_values, lambdas, ret,
                  fwd_log, U_pred >>

(* ---------------------------- training cell ---------------------------- *)
\* The state the training loop works on is a record st: the loop variable,
\* the list of losses, the counters of the optimizer, the namespace.

\* an iteration that calls optimizer.step() before it evaluates the loss
TrainIteration_StepFirst(st) ==
  LET r == PINN_diffusion_Loss(layers, st.opt_steps + 1, x_ten, t_ten, 1, 1, 1, st.names)
      called == [st EXCEPT !.zero_grad_calls = @ + 1,
                           !.opt_steps = @ + 1,
                           !.fwd_log = @ \o [k \in 1..Len(r.fwd) |->
                                               [cell |-> TrainCell, rows |-> r.fwd[k]]],
                           !.ret = [called |-> TRUE, exc |-> r.exc, value |-> r.value]]
  IN  IF r.exc # "none"
        THEN [called EXCEPT !.exc = r.exc]
        ELSE [called EXCEPT !.names = @ \cup {"loss"},
                            !.loss_values = Append(@, r.value),
                            !.reports = IF st.i % 1000 = 0 THEN @ \cup {"Iteration"} ELSE @,
                            !.backward_calls = @ + 1]

\* one iteration of the loop, st.i already bound
TrainIteration(st) ==
  LET r == PINN_diffusion_Loss(layers, st.opt_steps, x_ten, t_ten, 1, 1, 1, st.names)
      called == [st EXCEPT !.zero_grad_calls = @ + 1,
                           !.fwd_log = @ \o [k \in 1..Len(r.fwd) |->
                                               [cell |-> TrainCell, rows |-> r.fwd[k]]],
                           !.ret = [called |-> TRUE, exc |-> r.exc, value |-> r.value]]
  IN  IF r.exc # "none"
        THEN [called EXCEPT !.exc = r.exc]
        ELSE [called EXCEPT !.names = @ \cup {"loss"},
                            !.loss_values = Append(@, r.value),
                            !.reports = IF st.i % 1000 = 0 THEN @ \cup {"Iteration"} ELSE @,
                            !.backward_calls = @ + 1,
                            !.opt_steps = @ + 1]

\* for i in range(training_iter), from i = k on; stops at the first exception
RECURSIVE TrainLoop(_, _)
TrainLoop(st, k) ==
  IF k >= training_iter
    THEN st
    ELSE LET s1 == TrainIteration([st EXCEPT !.i = k, !.names = @ \cup {"i"}])
         IN  IF s1.exc # "none" THEN s1 ELSE TrainLoop(s1, k + 1)

\* def PINN_diffusion_Loss, loss_values = [], the timer, the loop, the
\* training-time report
RunTrain ==
  /\ Runnable(TrainCell)
  /\ LET st0 == [i |-> i, exc |-> "none",
                 names |-> globals \cup {"PINN_diffusion_Loss", "loss_values", "start_time"},
                 loss_values |-> << >>, reports |-> reports, ret |-> ret,
                 fwd_log |-> fwd_log, opt_steps |-> opt_steps,
                 backward_calls |-> backward_calls, zero_grad_calls |-> zero_grad_calls]
         fin == TrainLoop(st0, 0)
     IN  /\ i' = fin.i
         /\ loss_values' = fin.loss_values
         /\ ret' = fin.ret
         /\ fwd_log' = fin.fwd_log
         /\ opt_steps' = fin.opt_steps
         /\ backward_calls' = fin.backward_calls
         /\ zero_grad_calls' = fin.zero_grad_calls
         /\ lambdas' = << 1, 1, 1 >>
         /\ IF fin.exc # "none"
              THEN /\ reports' = fin.reports
                   /\ Raise(TrainCell, fin.exc, fin.names \ globals)
              ELSE /\ reports' = fin.reports \cup {"Training time"}
                   /\ Finish(TrainCell, (fin.names \ globals) \cup {"end_time", "elapsed_time"})
  /\ UNCHANGED << x, t, X, T, U, domain_xt, x_ten, t_ten, hidden_layers,
                  learning_rate, training_iter, layers, nparams, opt_lr, U_pred >>

(* --------------------------- evaluation cell --------------------------- *)
\* the two columns concatenated in the order [X_ten, T_ten]
EvalDomain_SpaceFirst(Xm, Tm) ==
  LET X_ten == ReshapeN1(FloatT(Xm))
      T_ten == ReshapeN1(FloatT(Tm))
  IN  Cat1(X_ten, T_ten)

\* the tensor handed to u_pinn by the evaluation cell
EvalDomain(Xm, Tm) ==
  LET X_ten == ReshapeN1(FloatT(Xm))
      T_ten == ReshapeN1(FloatT(Tm))
  IN  Cat1(T_ten, X_ten)

\* prediction on the mesh, relative error, plots
RunEval ==
  /\ Runnable(EvalCell)
  /\ LET domain_ten == EvalDomain(X, T)
         out == forward(layers, opt_steps, domain_ten)
         \* .reshape(dom_samples, dom_samples) needs dom_samples^2 elements
         e == IF out.exc # "none" THEN out.exc
              ELSE IF Len(out.out) * Len(out.out[1]) # dom_samples * dom_samples
                THEN "RuntimeError"
              ELSE "none"
     IN  /\ fwd_log' = Append(fwd_log, [cell |-> EvalCell, rows |-> domain_ten])
         /\ IF e # "none"
              THEN /\ U_pred' = U_pred
                   /\ reports' = reports
                   /\ Raise(EvalCell, e, {"X_ten", "T_ten", "domain_ten"})
              ELSE /\ U_pred' = Reshape2D(out.out, dom_samples, dom_samples)
                   /\ reports' = reports \cup {"Relative error", "plot_comparison"}
                   /\ Finish(EvalCell, {"X_ten", "T_ten", "domain_ten", "U_pred", "U_true"})
  /\ UNCHANGED << x, t, X, T, U, domain_xt, x_ten, t_ten, hidden_layers,
                  learning_rate, training_iter, layers, nparams, opt_lr, opt_steps,
                  backward_calls, zero_grad_calls, i, loss_values, lambdas, ret >>

Next ==
  \/ RunMagic
  \/ RunSetup
  \/ RunAnalytic
  \/ RunSampling
  \/ RunParams
  \/ RunNetDef
  \/ RunCreate
  \/ RunTrain
  \/ RunEval

Spec == Init /\ [][Next]_vars

(* ------------- the loss function as a function of its arguments -------- *)
\* The kernel after the cells up to the creation of u_pinn, with the
\* notebook's hidden_layers, and after the def of PINN_diffusion_Loss; the
\* collocation points and the lambdas of the call are the inputs.
LossInit ==
  /\ pc = TrainCell
  /\ exc = "none"
  /\ runs = [c \in Cells |-> IF c < TrainCell THEN 1 ELSE 0]
  /\ globals = {"np", "torch", "nn", "optim", "plt", "mlp", "time", "warnings", "gray",
                "relative_l2_error", "plot_comparison", "grad",
                "dom_samples", "analytic_diffusion", "x", "t", "X", "T", "U", "fig", "ax",
                "surf", "qmc", "sampler", "sample", "l_bounds", "u_bounds", "domain_xt",
                "x_ten", "t_ten", "hidden_layers", "learning_rate", "training_iter",
                "MSE_func", "NeuralNetwork", "u_pinn", "nparams", "optimizer",
                "PINN_diffusion_Loss"}
  /\ reports = {"3D Analytic Solution for Diffusion", "Collocation points",
                "Number of trainable parameters"}
  /\ x = linspace(-1, 1, dom_samples)
  /\ t = linspace(0, 2, dom_samples)
  /\ X = meshgrid(x, t).X
  /\ T = meshgrid(x, t).T
  /\ U = analytic_diffusion(X, T)
  /\ \E sample \in LatinHypercube : domain_xt = scale(sample, l_bounds, u_bounds)
  /\ x_ten = ReshapeVecN1([k \in 1..Len(domain_xt) |-> Float32(Column(domain_xt, 1)[k])])
  /\ t_ten = ReshapeVecN1([k \in 1..Len(domain_xt) |-> Float32(Column(domain_xt, 2)[k])])
  /\ hidden_layers = NotebookLayers
  /\ learning_rate = 10
  /\ training_iter \in IterChoices
  /\ layers = NeuralNetwork(hidden_layers)
  /\ nparams = NumParams(layers)
  /\ opt_lr = AdamLr
  /\ opt_steps = 0 /\ backward_calls = 0 /\ zero_grad_calls = 0
  /\ i = -1
  /\ loss_values = << >>
  /\ lambdas \in (1..MaxLambda) \X (1..MaxLambda) \X (1..MaxLambda)
  /\ ret = NoCall
  /\ fwd_log = << >>
  /\ U_pred = << >>

\* PINN_diffusion_Loss(u_pinn, x_ten, t_ten, lambda1, lambda2, lambda3)
CallLoss ==
  /\ ~ret.called
  /\ LET r == PINN_diffusion_Loss(layers, opt_steps, x_ten, t_ten,
                                  lambdas[1], lambdas[2], lambdas[3], globals)
     IN  /\ ret' = [called |-> TRUE, exc |-> r.exc, value |-> r.value]
         /\ fwd_log' = fwd_log \o [k \in 1..Len(r.fwd) |->
                                     [cell |-> TrainCell, rows |-> r.fwd[k]]]
  /\ UNCHANGED << pc, exc, runs, globals, reports, x, t, X, T, U, domain_xt, x_ten,
                  t_ten, hidden_layers, learning_rate, training_iter, layers, nparams,
                  opt_lr, opt_steps, backward_calls, zero_grad_calls, i, loss_values,
                  lambdas, U_pred >>

LossNext == CallLoss

LossSpec == LossInit /\ [][LossNext]_vars

(* ------------------------------ properties ----------------------------- *)
\* the hidden_layers given fit the problem: two inputs (t, x), one output
InputFits ==
  /\ Len(hidden_layers) >= 2
  /\ hidden_layers[1] = 2
  /\ hidden_layers[Len(hidden_layers)] = 1

\* the run is over: a cell raised, or the last cell finished
RunEnded == exc # "none" \/ pc = EvalCell + 1

\* the four terms of the composite loss
LossTerms == << "PDE_loss", "IC_loss", "BC1_loss", "BC2_loss" >>

\* lambda1*PDE_loss + lambda2*IC_loss + lambda3*BC1_loss + lambda3*BC2_loss
WeightedSum(l) ==
  << <<l[1], "PDE_loss">>, <<l[2], "IC_loss">>, <<l[3], "BC1_loss">>, <<l[3], "BC2_loss">> >>

\* C1: every iteration the training loop starts gets a composite loss of
\* the four terms back from PINN_diffusion_Loss and then does one backward
\* pass and one optimizer step.
C1_CompositeLossEachIteration ==
  (InputFits /\ runs[TrainCell] >= 1) =>
     /\ ret.called => /\ ret.exc = "none"
                      /\ [k \in 1..4 |-> ret.value.sum[k][2]] = LossTerms
     /\ backward_calls = zero_grad_calls
     /\ opt_steps = zero_grad_calls

\* C2: when the run is over every cell has run exactly once, in notebook
\* order, and the evaluation used the parameters left by the last training
\* iteration.
C2_EveryStepOnceInOrder ==
  InputFits =>
     /\ \A c \in Cells : runs[c] = IF c < pc THEN 1 ELSE IF c = pc /\ exc # "none" THEN 1 ELSE 0
     /\ RunEnded => /\ \A c \in Cells : runs[c] = 1
                    /\ exc = "none"
                    /\ \A a \in 1..dom_samples, b \in 1..dom_samples :
                         U_pred[a][b].theta = training_iter

\* C3: a failure of the loss evaluation at iteration i stops the run there:
\* i losses recorded, i optimizer steps applied, the training cell not
\* retried, no timing report, no evaluation, no plot, nothing left to run.
C3_FailureStopsRun ==
  (exc # "none" /\ pc = TrainCell) =>
     /\ ret.called /\ ret.exc = exc
     /\ i >= 0
     /\ Len(loss_values) = i
     /\ opt_steps = i
     /\ backward_calls = i
     /\ runs[TrainCell] = 1
     /\ runs[EvalCell] = 0
     /\ reports \cap {"Training time", "Relative error", "plot_comparison"} = {}
     /\ U_pred = << >>
     /\ ~ENABLED Next

C3_Witness ==
  /\ exc = "NameError"
  /\ pc = TrainCell
  /\ training_iter = MaxIter
  /\ ret.called
  /\ i = 0

\* C4: the value PINN_diffusion_Loss returns is the sum of the four terms
\* weighted by lambda1, lambda2, lambda3, lambda3.
C4_WeightedSumReturned ==
  ret.called => /\ ret.exc = "none"
                /\ ret.value.sum = WeightedSum(lambdas)

\* C5: the network is built from hidden_layers, the learning rate of Adam
\* is learning_rate, and a training loop that finishes has run
\* training_iter iterations.
C5_DeclaredHyperparametersUsed ==
  runs[CreateCell] >= 1 =>
     /\ layers = NeuralNetwork(hidden_layers)
     /\ opt_lr = learning_rate
     /\ pc > TrainCell => zero_grad_calls = training_iter

\* C6: every tensor handed to u_pinn has two columns, time in [0, 2] first
\* and space in [-1, 1] second: the training rows are (t_ten[k], x_ten[k]),
\* the evaluation rows are the mesh points (t[a], x[b]) in row-major order.
C6_TimeThenSpace ==
  \A e \in 1..Len(fwd_log) :
     LET rows == fwd_log[e].rows
     IN  /\ \A k \in 1..Len(rows) :
               /\ Len(rows[k]) = 2
               /\ rows[k][1] \in 0..(2 * Den)
               /\ rows[k][2] \in (-Den)..Den
         /\ fwd_log[e].cell = TrainCell =>
               /\ Len(rows) = NSamples
               /\ \A k \in 1..NSamples :
                     /\ rows[k] = << t_ten[k][1], x_ten[k][1] >>
                     /\ rows[k][1] = Float32(domain_xt[k][2])
                     /\ rows[k][2] = Float32(domain_xt[k][1])
         /\ fwd_log[e].cell = EvalCell =>
               /\ Len(rows) = dom_samples * dom_samples
               /\ \A a \in 1..dom_samples, b \in 1..dom_samples :
                     rows[(a - 1) * dom_samples + b] = << Float32(t[a]), Float32(x[b]) >>

C6_Witness ==
  /\ Len(fwd_log) = 1
  /\ fwd_log[1].cell = EvalCell
  /\ \E k \in 1..Len(fwd_log[1].rows) : fwd_log[1].rows[k] = << 2 * Den, -Den >>

\* C7: the training loop ends normally after training_iter iterations, the
\* last one with i = training_iter - 1, and loss_values then holds
\* training_iter entries.
C7_LoopRunsToCompletion ==
  (InputFits /\ runs[TrainCell] >= 1) =>
     /\ pc > TrainCell
     /\ Len(loss_values) = training_iter
     /\ training_iter > 0 => i = training_iter - 1

\* C8: NeuralNetwork(hlayers) with n = len(hlayers) >= 2 is n-1 Linear and
\* n-2 Tanh, alternating and ending with a Linear; the k-th Linear maps
\* hlayers[k] to hlayers[k+1], so consecutive Linear widths agree; the
\* notebook's [2, 10, 10, 10, 1] gives 4 Linear, 3 Tanh, 261 parameters.
C8_NetworkShape ==
  runs[CreateCell] >= 1 =>
     LET n == Len(hidden_layers)
         Lin == { k \in 1..Len(layers) : layers[k].kind = "Linear" }
         Tanh == { k \in 1..Len(layers) : layers[k].kind = "Tanh" }
     IN  /\ Cardinality(Lin) = n - 1
         /\ Cardinality(Tanh) = n - 2
         /\ Len(layers) = 2 * n - 3
         /\ \A k \in 1..(n - 1) :
               /\ layers[2 * k - 1].kind = "Linear"
               /\ layers[2 * k - 1].in = hidden_layers[k]
               /\ layers[2 * k - 1].out = hidden_layers[k + 1]
         /\ \A k \in 1..(n - 2) :
               /\ layers[2 * k].kind = "Tanh"
               /\ layers[2 * k - 1].out = layers[2 * k + 1].in
         /\ hidden_layers = NotebookLayers =>
               /\ Cardinality(Lin) = 4
               /\ Cardinality(Tanh) = 3
               /\ nparams = 261

C8_Witness ==
  /\ runs[CreateCell] = 1
  /\ hidden_layers = NotebookLayers
  /\ Len(layers) = 7
  /\ nparams = 261

\* C9: after the evaluation cell U_pred[a][b] is the output of the network
\* at the mesh point (t[a], x[b]), the point whose analytical solution is
\* U[a][b].
C9_GridAlignment ==
  (runs[EvalCell] = 1 /\ exc = "none") =>
     /\ Len(U_pred) = dom_samples
     /\ \A a \in 1..dom_samples :
          /\ Len(U_pred[a]) = dom_samples
          /\ \A b \in 1..dom_samples :
               /\ U_pred[a][b] = NetOut(opt_steps, << Float32(t[a]), Float32(x[b]) >>)
               /\ U[a][b].t = t[a]
               /\ U[a][b].x = x[b]

C9_Witness ==
  /\ runs[EvalCell] = 1
  /\ exc = "none"
  /\ pc = EvalCell + 1
  /\ U_pred[1][dom_samples].in = << 0, Den >>
====
